---- MODULE Spec2Model ----
(***************************************************************************)
(* Model of the embytes-buffer crate: a fixed-capacity byte buffer with a  *)
(* read cursor and a write cursor over one backing store (src/src/lib.rs), *)
(* and its scoped Reader (src/src/read.rs) and Writer (src/src/write.rs).  *)
(*                                                                         *)
(* Rust slices are 0-based and half-open; TLA+ sequences are 1-based.      *)
(* Slice(s, a, b) is the Rust slice s[a..b].                               *)
(***************************************************************************)
EXTENDS Integers, Sequences, FiniteSets, TLC

\* ---- bounds of the model -------------------------------------------------
\* largest backing store
MaxCapacity == 3
\* byte values are 0..MaxByte instead of 0..255
MaxByte == 1
\* longest slice handed to write / push / read
MaxLen == 3
\* largest n handed to skip / add_bytes_read / commit / create_reader_with_max,
\* and the cap on a Reader's accumulated bytes_read
MaxCount == 2

Byte == 0..MaxByte

SeqsUpTo(S, n) == UNION {[1..k -> S] : k \in 0..n}

Min(a, b) == IF a < b THEN a ELSE b

\* s[a..b]
Slice(s, a, b) == SubSeq(s, a + 1, b)

rotate_right(s, mid) ==
    SubSeq(s, Len(s) - mid + 1, Len(s)) \o SubSeq(s, 1, Len(s) - mid)

\* [T]::rotate_left(mid): the first mid elements move to the end
rotate_left(s, mid) == SubSeq(s, mid + 1, Len(s)) \o SubSeq(s, 1, mid)

\* tgt[off .. off + src.len()].copy_from_slice(src)
copy_from_slice(tgt, off, src) ==
    [i \in 1..Len(tgt) |->
        IF i > off /\ i <= off + Len(src) THEN src[i - off] ELSE tgt[i]]

\* a [0u8; n] array
Zeros(n) == [i \in 1..n |-> 0]

\* ---- Result<_, BufferError> ----------------------------------------------
Ok(v)  == [ok |-> TRUE,  val |-> v, err |-> "None"]
Err(e) == [ok |-> FALSE, val |-> 0, err |-> e]

\* ---- struct Buffer and its pure accessors --------------------------------
\* b is a record [source, write_position, read_position]
MkBuffer(s, w, r) == [source |-> s, write_position |-> w, read_position |-> r]

new(src) == MkBuffer(src, 0, 0)

reset_keep_dead(b) == MkBuffer(b.source, b.read_position, b.read_position)

reset(b) == MkBuffer(b.source, 0, 0)

capacity(b) == Len(b.source)

remaining_capacity(b) == capacity(b) - b.write_position

has_remaining_capacity(b) == capacity(b) > b.write_position

remaining_len(b) == b.write_position - b.read_position

has_dead_capacity(b) == b.read_position > 0

data(b) == Slice(b.source, b.read_position, b.write_position)

shift_keep_write(b) ==
    MkBuffer(rotate_left(b.source, b.read_position), b.write_position, 0)

shift_no_rotate(b) ==
    MkBuffer(b.source, b.write_position - b.read_position, 0)

shift(b) ==
    MkBuffer(rotate_left(b.source, b.read_position),
             b.write_position - b.read_position,
             0)

ensure_remaining_capacity(b) ==
    LET b1 == IF ~has_remaining_capacity(b) THEN shift(b) ELSE b
    IN  [b |-> b1, ret |-> has_remaining_capacity(b1)]

write_base_from_start(b, buf) ==
    IF buf = <<>> THEN [b |-> b, res |-> Err("ProvidedSliceEmpty")]
    ELSE
      LET b1  == IF ~has_remaining_capacity(b) /\ has_dead_capacity(b)
                 THEN shift(b) ELSE b
          cap == remaining_capacity(b1)
          n   == Min(cap, Len(buf))
      IN  IF cap = 0 THEN [b |-> b1, res |-> Err("NoCapacity")]
          ELSE [b |-> MkBuffer(copy_from_slice(b1.source, 0, Slice(buf, 0, n)),
                               b1.write_position + n, b1.read_position),
                res |-> Ok(n)]

write_base_no_shift(b, buf) ==
    IF buf = <<>> THEN [b |-> b, res |-> Err("ProvidedSliceEmpty")]
    ELSE
      LET cap == remaining_capacity(b)
          n   == Min(cap, Len(buf))
      IN  IF cap = 0 THEN [b |-> b, res |-> Err("NoCapacity")]
          ELSE [b |-> MkBuffer(copy_from_slice(b.source, b.write_position, Slice(buf, 0, n)),
                               b.write_position + n, b.read_position),
                res |-> Ok(n)]

write_base_all_or_nothing(b, buf) ==
    IF buf = <<>> THEN [b |-> b, res |-> Err("ProvidedSliceEmpty")]
    ELSE
      LET b1  == IF ~has_remaining_capacity(b) /\ has_dead_capacity(b)
                 THEN shift(b) ELSE b
          cap == remaining_capacity(b1)
      IN  IF cap < Len(buf) THEN [b |-> b1, res |-> Err("NoCapacity")]
          ELSE [b |-> MkBuffer(copy_from_slice(b1.source, b1.write_position, buf),
                               b1.write_position + Len(buf), b1.read_position),
                res |-> Ok(Len(buf))]

write_base_shift_first(b, buf) ==
    LET b1  == IF ~has_remaining_capacity(b) /\ has_dead_capacity(b)
               THEN shift(b) ELSE b
        cap == remaining_capacity(b1)
    IN  IF buf = <<>> THEN [b |-> b1, res |-> Err("ProvidedSliceEmpty")]
        ELSE IF cap = 0 THEN [b |-> b1, res |-> Err("NoCapacity")]
        ELSE IF cap < Len(buf)
        THEN [b |-> MkBuffer(copy_from_slice(b1.source, b1.write_position, Slice(buf, 0, cap)),
                             b1.write_position + cap, b1.read_position),
              res |-> Ok(cap)]
        ELSE [b |-> MkBuffer(copy_from_slice(b1.source, b1.write_position, buf),
                             b1.write_position + Len(buf), b1.read_position),
              res |-> Ok(Len(buf))]

write_base(b, buf) ==
    IF buf = <<>> THEN [b |-> b, res |-> Err("ProvidedSliceEmpty")]
    ELSE
      LET b1  == IF ~has_remaining_capacity(b) /\ has_dead_capacity(b)
                 THEN shift(b) ELSE b
          cap == remaining_capacity(b1)
      IN  IF cap = 0 THEN [b |-> b1, res |-> Err("NoCapacity")]
          ELSE IF cap < Len(buf)
          THEN [b |-> MkBuffer(copy_from_slice(b1.source, b1.write_position, Slice(buf, 0, cap)),
                               b1.write_position + cap, b1.read_position),
                res |-> Ok(cap)]
          ELSE [b |-> MkBuffer(copy_from_slice(b1.source, b1.write_position, buf),
                               b1.write_position + Len(buf), b1.read_position),
                res |-> Ok(Len(buf))]

read_base_no_advance(b, buf) ==
    IF buf = <<>> THEN [b |-> b, res |-> Err("ProvidedSliceEmpty"), buf |-> buf]
    ELSE
      LET src == Slice(b.source, b.read_position, b.write_position)
          n   == Min(Len(src), Len(buf))
      IN  IF src = <<>> THEN [b |-> b, res |-> Err("NoData"), buf |-> buf]
          ELSE [b |-> b, res |-> Ok(n), buf |-> copy_from_slice(buf, 0, Slice(src, 0, n))]

\* the third field is the caller's slice after the call
read_base(b, buf) ==
    IF buf = <<>> THEN [b |-> b, res |-> Err("ProvidedSliceEmpty"), buf |-> buf]
    ELSE
      LET src == Slice(b.source, b.read_position, b.write_position)
      IN  IF src = <<>> THEN [b |-> b, res |-> Err("NoData"), buf |-> buf]
          ELSE IF Len(src) > Len(buf)
          THEN [b   |-> MkBuffer(b.source, b.write_position, b.read_position + Len(buf)),
                res |-> Ok(Len(buf)),
                buf |-> copy_from_slice(buf, 0, Slice(src, 0, Len(buf)))]
          ELSE [b   |-> MkBuffer(b.source, b.write_position, b.read_position + Len(src)),
                res |-> Ok(Len(src)),
                buf |-> copy_from_slice(buf, 0, src)]

skip_unchecked(b, n) ==
    [b |-> MkBuffer(b.source, b.write_position, b.read_position + n), res |-> Ok(0)]

skip_strict(b, n) ==
    IF remaining_len(b) > n
    THEN [b |-> MkBuffer(b.source, b.write_position, b.read_position + n), res |-> Ok(0)]
    ELSE [b |-> b, res |-> Err("NoData")]

\* Result<(), _>: Ok(()) is written Ok(0)
skip(b, n) ==
    IF remaining_len(b) >= n
    THEN [b |-> MkBuffer(b.source, b.write_position, b.read_position + n), res |-> Ok(0)]
    ELSE [b |-> b, res |-> Err("NoData")]

push_no_shift(b, buf) ==
    IF remaining_capacity(b) >= Len(buf)
    THEN [b |-> MkBuffer(copy_from_slice(b.source, b.write_position, buf),
                         b.write_position + Len(buf), b.read_position),
          res |-> Ok(0)]
    ELSE [b |-> b, res |-> Err("NoCapacity")]

push(b, buf) ==
    LET b1 == IF remaining_capacity(b) < Len(buf) /\ has_dead_capacity(b)
              THEN shift(b) ELSE b
    IN  IF remaining_capacity(b1) >= Len(buf)
        THEN [b |-> MkBuffer(copy_from_slice(b1.source, b1.write_position, buf),
                             b1.write_position + Len(buf), b1.read_position),
              res |-> Ok(0)]
        ELSE [b |-> b1, res |-> Err("NoCapacity")]

\* ---- the std::io and embedded_io adapters (lib.rs) -----------------------
\* Each takes the Result of write_base / read_base and is the adapter's match on
\* it. Err("WouldBlock") is std::io::ErrorKind::WouldBlock, Err("Other") is
\* embedded_io::ErrorKind::Other, Err("Panic") is the panic! arm.
std_io_write(r) ==
    IF r.ok THEN Ok(r.val)
    ELSE IF r.err = "ProvidedSliceEmpty" THEN Ok(0)
    ELSE IF r.err = "NoCapacity" THEN Err("WouldBlock")
    ELSE Err("Panic")

std_io_read(r) ==
    IF r.ok THEN Ok(r.val)
    ELSE IF r.err = "ProvidedSliceEmpty" THEN Ok(0)
    ELSE IF r.err = "NoData" THEN Err("WouldBlock")
    ELSE Err("Panic")

embedded_io_write(r) ==
    IF r.ok THEN Ok(r.val)
    ELSE IF r.err = "ProvidedSliceEmpty" THEN Ok(0)
    ELSE IF r.err = "NoCapacity" THEN Err("Other")
    ELSE Err("Panic")

embedded_io_read(r) ==
    IF r.ok THEN Ok(r.val)
    ELSE IF r.err = "ProvidedSliceEmpty" THEN Ok(0)
    ELSE IF r.err = "NoData" THEN Err("Other")
    ELSE Err("Panic")

\* ---- struct Reader (read.rs) ---------------------------------------------
\* Option<usize>: None is <<>>, Some(n) is <<n>>
None == <<>>

Some(n) == <<n>>

add_bytes_read_overwrite(br, n) == n

add_bytes_read(br, n) == br + n

Reader_drop_forget(b, br) == [b |-> b, panic |-> FALSE]

\* Drop for Reader: skip(bytes_read).expect(..); panic on Err
Reader_drop(b, br) ==
    LET r == skip(b, br)
    IN  [b |-> r.b, panic |-> ~r.res.ok]

\* Deref for Reader: &src[..max] panics when max > src.len()
Reader_deref(b, mb) ==
    LET src == data(b)
    IN  IF mb = None THEN [view |-> src, panic |-> FALSE]
        ELSE IF mb[1] > Len(src) THEN [view |-> <<>>, panic |-> TRUE]
        ELSE [view |-> Slice(src, 0, mb[1]), panic |-> FALSE]

\* ---- struct Write (write.rs) ---------------------------------------------
Write_remaining_capacity(b, bw) == capacity(b) - b.write_position - bw

commit_unchecked(b, bw, n) == [bytes_written |-> bw + n, res |-> Ok(0)]

commit_against_creation(b, bw, n) ==
    IF capacity(b) - b.write_position < n
    THEN [bytes_written |-> bw, res |-> Err("NoCapacity")]
    ELSE [bytes_written |-> bw + n, res |-> Ok(0)]

commit(b, bw, n) ==
    IF Write_remaining_capacity(b, bw) < n
    THEN [bytes_written |-> bw, res |-> Err("NoCapacity")]
    ELSE [bytes_written |-> bw + n, res |-> Ok(0)]

Write_drop_whole_view(b, bw) ==
    [b |-> MkBuffer(b.source, Len(b.source), b.read_position), panic |-> FALSE]

Write_drop_no_advance(b, bw) == [b |-> b, panic |-> FALSE]

\* Drop for Write: the cursor is advanced before the check
Write_drop(b, bw) ==
    LET w == b.write_position + bw
    IN  [b |-> MkBuffer(b.source, w, b.read_position), panic |-> w > Len(b.source)]

Write_offset_at_creation(b, bw) == b.write_position

\* Deref / DerefMut for Write: &tgt[offset..]
Write_offset(b, bw) == b.write_position + bw

Write_deref(b, bw) == Slice(b.source, Write_offset(b, bw), Len(b.source))

create_writer_no_shift(b) == [b |-> b, bytes_written |-> 0]

\* ReadWrite::create_writer: shift, then Write::new
create_writer(b) == [b |-> shift(b), bytes_written |-> 0]

\* ---- the state machine ---------------------------------------------------
VARIABLES
    source,          \* Buffer::source
    write_position,  \* Buffer::write_position
    read_position,   \* Buffer::read_position
    handle,          \* "none", "reader" or "writer": the borrow of the Buffer
    bytes_read,      \* Reader::bytes_read
    max_bytes,       \* Reader::max_bytes
    bytes_written,   \* Write::bytes_written
    panicked,        \* the thread has panicked
    last,            \* the call that has just returned: its name, inputs, result,
                     \* and the Buffer, the borrow and the handle's counter before
                     \* it; NoCall once the caller moved on
    queue,           \* the bytes the Buffer took in since the last reset, in the
                     \* order the calls reported taking them, less the bytes the
                     \* calls reported giving out or dropping at the front
    opened           \* what the open handle was created on: the unread bytes before
                     \* its creation, the cursors right after it, the storage (for
                     \* a Reader; a Writer's caller scribbles on it), the Reader's
                     \* max_bytes, the sum of the counts declared or committed so
                     \* far, and whether the Writer's view was written to;
                     \* NoOpened once the caller moved on after the release

vars == <<source, write_position, read_position, handle, bytes_read, max_bytes,
          bytes_written, panicked, last, queue, opened>>

Buf == MkBuffer(source, write_position, read_position)

Bufs == SeqsUpTo(Byte, MaxLen)

Apply(b) ==
    /\ source' = b.source
    /\ write_position' = b.write_position
    /\ read_position' = b.read_position

\* the counter of the handle that is open
Counter == IF handle = "writer" THEN bytes_written ELSE bytes_read

\* the adapters' results of a call that has no adapter
NoIo == Ok(0)

\* res is the core Result; std_io and embedded_io are what the two adapters
\* return for it
CallIo(op, buf, n, res, out, s, e) ==
    last' = [op |-> op, buf |-> buf, n |-> n, res |-> res, out |-> out, pre |-> Buf,
             held |-> handle, cnt |-> Counter, std_io |-> s, embedded_io |-> e]

Call(op, buf, n, res, out) == CallIo(op, buf, n, res, out, NoIo, NoIo)

NoCall == [op |-> "none", buf |-> <<>>, n |-> 0, res |-> Ok(0), out |-> <<>>,
           pre |-> MkBuffer(<<>>, 0, 0), held |-> "none", cnt |-> 0,
           std_io |-> NoIo, embedded_io |-> NoIo]

\* bytes taken in at the back of the queue, n bytes dropped at its front
Accepted(q, bytes) == q \o bytes

Consumed(q, n) == Slice(q, n, Len(q))

NoOpened == [data |-> <<>>, read_position |-> 0, write_position |-> 0, source |-> <<>>,
             max_bytes |-> None, sum |-> 0, scribbled |-> FALSE]

NoHandle ==
    UNCHANGED <<handle, bytes_read, max_bytes, bytes_written, opened>>

\* the thread is running and the previous call has returned
Ready == ~panicked /\ last = NoCall

\* nothing borrows the Buffer
Idle_unborrowed == Ready

\* no Reader or Write holds the &'a mut Buffer<T>
Idle == Ready /\ handle = "none"

Init ==
    /\ \E c \in 0..MaxCapacity :
          LET b == new(Zeros(c))
          IN  /\ source = b.source
              /\ write_position = b.write_position
              /\ read_position = b.read_position
    /\ handle = "none"
    /\ bytes_read = 0
    /\ max_bytes = None
    /\ bytes_written = 0
    /\ panicked = FALSE
    /\ last = NoCall
    /\ opened = NoOpened
    /\ queue = <<>>

Write(buf) ==
    /\ Idle
    /\ LET r == write_base(Buf, buf)
           s == std_io_write(r.res)
           e == embedded_io_write(r.res)
       IN  /\ Apply(r.b) /\ CallIo("write", buf, 0, r.res, <<>>, s, e)
           /\ panicked' = (s = Err("Panic") \/ e = Err("Panic"))
           /\ queue' = IF r.res.ok THEN Accepted(queue, Slice(buf, 0, r.res.val))
                                   ELSE queue
    /\ NoHandle

\* the caller's slice is a zeroed array of n bytes
Read(n) ==
    /\ Idle
    /\ LET r == read_base(Buf, Zeros(n))
           s == std_io_read(r.res)
           e == embedded_io_read(r.res)
       IN  /\ Apply(r.b) /\ CallIo("read", <<>>, n, r.res, r.buf, s, e)
           /\ panicked' = (s = Err("Panic") \/ e = Err("Panic"))
           /\ queue' = IF r.res.ok THEN Consumed(queue, r.res.val) ELSE queue
    /\ NoHandle

Push(buf) ==
    /\ Idle
    /\ LET r == push(Buf, buf)
       IN  /\ Apply(r.b) /\ Call("push", buf, 0, r.res, <<>>)
           /\ queue' = IF r.res.ok THEN Accepted(queue, buf) ELSE queue
    /\ NoHandle /\ UNCHANGED panicked

Skip(n) ==
    /\ Idle
    /\ LET r == skip(Buf, n)
       IN  /\ Apply(r.b) /\ Call("skip", <<>>, n, r.res, <<>>)
           /\ queue' = IF r.res.ok THEN Consumed(queue, n) ELSE queue
    /\ NoHandle /\ UNCHANGED panicked

Shift ==
    /\ Idle
    /\ Apply(shift(Buf)) /\ Call("shift", <<>>, 0, Ok(0), <<>>)
    /\ NoHandle /\ UNCHANGED <<panicked, queue>>

Reset ==
    /\ Idle
    /\ Apply(reset(Buf)) /\ Call("reset", <<>>, 0, Ok(0), <<>>)
    /\ queue' = <<>>
    /\ NoHandle /\ UNCHANGED panicked

\* the returned bool is recorded as Ok(1) / Ok(0)
EnsureRemainingCapacity ==
    /\ Idle
    /\ LET r == ensure_remaining_capacity(Buf)
       IN  Apply(r.b)
           /\ Call("ensure_remaining_capacity", <<>>, 0, Ok(IF r.ret THEN 1 ELSE 0), <<>>)
    /\ NoHandle /\ UNCHANGED <<panicked, queue>>

CreateReader ==
    /\ Idle
    /\ handle' = "reader" /\ bytes_read' = 0 /\ max_bytes' = None
    /\ Apply(Buf) /\ Call("create_reader", <<>>, 0, Ok(0), <<>>)
    /\ opened' = [data |-> data(Buf), read_position |-> read_position,
                  write_position |-> write_position, source |-> source,
                  max_bytes |-> None, sum |-> 0, scribbled |-> FALSE]
    /\ UNCHANGED <<bytes_written, panicked, queue>>

CreateReaderWithMax(m) ==
    /\ Idle
    /\ handle' = "reader" /\ bytes_read' = 0 /\ max_bytes' = Some(m)
    /\ Apply(Buf) /\ Call("create_reader_with_max", <<>>, m, Ok(0), <<>>)
    /\ opened' = [data |-> data(Buf), read_position |-> read_position,
                  write_position |-> write_position, source |-> source,
                  max_bytes |-> Some(m), sum |-> 0, scribbled |-> FALSE]
    /\ UNCHANGED <<bytes_written, panicked, queue>>

AddBytesRead(n) ==
    /\ Ready /\ handle = "reader"
    /\ bytes_read + n <= MaxCount
    /\ bytes_read' = add_bytes_read(bytes_read, n)
    /\ Apply(Buf) /\ Call("add_bytes_read", <<>>, n, Ok(0), <<>>)
    /\ opened' = [opened EXCEPT !.sum = @ + n]
    /\ UNCHANGED <<handle, max_bytes, bytes_written, panicked, queue>>

\* reading the view; the index panic unwinds through Reader::drop, and a second
\* panic there aborts with the Buffer as the first one left it
ReaderDeref ==
    /\ Ready /\ handle = "reader"
    /\ LET v == Reader_deref(Buf, max_bytes)
           d == Reader_drop(Buf, bytes_read)
       IN  IF v.panic
           THEN /\ Apply(d.b) /\ panicked' = TRUE /\ handle' = "none"
                /\ bytes_read' = 0 /\ max_bytes' = None
                /\ Call("reader_deref", <<>>, 0, Err("Panic"), <<>>)
                /\ queue' = IF d.panic THEN queue ELSE Consumed(queue, bytes_read)
           ELSE /\ Apply(Buf) /\ Call("reader_deref", <<>>, 0, Ok(Len(v.view)), v.view)
                /\ UNCHANGED <<handle, bytes_read, max_bytes, panicked, queue>>
    /\ UNCHANGED <<bytes_written, opened>>

ReaderRelease ==
    /\ Ready /\ handle = "reader"
    /\ LET d == Reader_drop(Buf, bytes_read)
       IN  /\ Apply(d.b) /\ panicked' = d.panic
           /\ Call("reader_release", <<>>, bytes_read,
                   IF d.panic THEN Err("Panic") ELSE Ok(0), <<>>)
           /\ queue' = IF d.panic THEN queue ELSE Consumed(queue, bytes_read)
    /\ handle' = "none" /\ bytes_read' = 0 /\ max_bytes' = None
    /\ UNCHANGED <<bytes_written, opened>>

CreateWriter ==
    /\ Idle
    /\ LET w == create_writer(Buf)
       IN  /\ Apply(w.b) /\ bytes_written' = w.bytes_written
           /\ opened' = [data |-> data(Buf), read_position |-> w.b.read_position,
                         write_position |-> w.b.write_position, source |-> <<>>,
                         max_bytes |-> None, sum |-> 0, scribbled |-> FALSE]
    /\ Call("create_writer", <<>>, 0, Ok(0), <<>>)
    /\ handle' = "writer"
    /\ UNCHANGED <<bytes_read, max_bytes, panicked, queue>>

\* write[i] = v; an index past the view panics and unwinds through Write::drop
WriterStore(i, v) ==
    /\ Ready /\ handle = "writer"
    /\ IF i < Len(Write_deref(Buf, bytes_written))
       THEN /\ Apply(MkBuffer(copy_from_slice(source, Write_offset(Buf, bytes_written) + i, <<v>>),
                              write_position, read_position))
            /\ Call("writer_store", <<v>>, i, Ok(0), <<>>)
            /\ opened' = [opened EXCEPT !.scribbled = TRUE]
            /\ UNCHANGED <<handle, bytes_written, panicked, queue>>
       ELSE /\ Apply(Write_drop(Buf, bytes_written).b)
            /\ Call("writer_store", <<v>>, i, Err("Panic"), <<>>)
            /\ queue' = IF Write_drop(Buf, bytes_written).panic THEN queue
                        ELSE Accepted(queue, Slice(source, write_position,
                                                   write_position + bytes_written))
            /\ handle' = "none" /\ bytes_written' = 0 /\ panicked' = TRUE
            /\ UNCHANGED opened
    /\ UNCHANGED <<bytes_read, max_bytes>>

Commit(n) ==
    /\ Ready /\ handle = "writer"
    /\ LET r == commit(Buf, bytes_written, n)
       IN  /\ bytes_written' = r.bytes_written /\ Call("commit", <<>>, n, r.res, <<>>)
           /\ opened' = [opened EXCEPT !.sum = IF r.res.ok THEN @ + n ELSE @]
    /\ Apply(Buf)
    /\ UNCHANGED <<handle, bytes_read, max_bytes, panicked, queue>>

WriterRelease ==
    /\ Ready /\ handle = "writer"
    /\ LET d == Write_drop(Buf, bytes_written)
       IN  /\ Apply(d.b) /\ panicked' = d.panic
           /\ Call("writer_release", <<>>, bytes_written,
                   IF d.panic THEN Err("Panic") ELSE Ok(0), <<>>)
           /\ queue' = IF d.panic THEN queue
                       ELSE Accepted(queue, Slice(source, write_position,
                                                  write_position + bytes_written))
    /\ handle' = "none" /\ bytes_written' = 0
    /\ UNCHANGED <<bytes_read, max_bytes, opened>>

\* the caller has looked at the result of the call and goes on
Return ==
    /\ last # NoCall
    /\ last' = NoCall
    /\ opened' = IF handle = "none" THEN NoOpened ELSE opened
    /\ UNCHANGED <<source, write_position, read_position, handle, bytes_read,
                   max_bytes, bytes_written, panicked, queue>>

Next ==
    \/ \E buf \in Bufs : Write(buf)
    \/ \E n \in 0..MaxLen : Read(n)
    \/ \E buf \in Bufs : Push(buf)
    \/ \E n \in 0..MaxCount : Skip(n)
    \/ Shift
    \/ Reset
    \/ EnsureRemainingCapacity
    \/ CreateReader
    \/ \E m \in 0..MaxCount : CreateReaderWithMax(m)
    \/ \E n \in 0..MaxCount : AddBytesRead(n)
    \/ ReaderDeref
    \/ ReaderRelease
    \/ CreateWriter
    \/ \E i \in 0..MaxCapacity, v \in Byte : WriterStore(i, v)
    \/ \E n \in 0..MaxCount : Commit(n)
    \/ WriterRelease
    \/ Return

Spec == Init /\ [][Next]_vars

\* ---- the claims ----------------------------------------------------------
PreLen == remaining_len(last.pre)

PreCap == capacity(last.pre)

Prefix(s, n) == SubSeq(s, 1, n)

\* C1: in every reachable state 0 <= read_position <= write_position <= capacity.
C1_CursorInvariant ==
    /\ 0 <= read_position
    /\ read_position <= write_position
    /\ write_position <= Len(source)

\* a Writer released with commits on a buffer it filled to the end, and a Reader
\* released after declaring bytes
C1_Witness ==
    \/ /\ last.op = "writer_release" /\ last.res.ok /\ last.n > 0
       /\ write_position = Len(source) /\ read_position = 0
    \/ /\ last.op = "reader_release" /\ last.res.ok /\ last.n > 0
       /\ read_position = write_position

\* what one write(S) followed by one read into a Len(S)-byte slice returns
RoundTrip(b, S) == read_base(write_base(b, S).b, Zeros(Len(S)))

\* C2 (as claimed): on a buffer with no unread data, write(S) with
\* 1 <= len(S) <= capacity followed by a read into a len(S)-byte slice returns
\* len(S) bytes that are exactly S.
C2_RoundTripAnyDrained ==
    (Idle /\ remaining_len(Buf) = 0) =>
        \A S \in Bufs :
            (1 <= Len(S) /\ Len(S) <= capacity(Buf))
            => /\ RoundTrip(Buf, S).res = Ok(Len(S))
               /\ RoundTrip(Buf, S).buf = S

\* C2 (amended): on a buffer with no unread data and capacity >= 1, write(S) with
\* len(S) >= 1 stores the first n = min(len(S), f) bytes of S, f being
\* capacity - write_position, or capacity when write_position = capacity; the read
\* then returns exactly those n bytes, so it returns S whenever len(S) <= f.
C2_RoundTrip ==
    (Idle /\ remaining_len(Buf) = 0 /\ capacity(Buf) >= 1) =>
        \A S \in Bufs :
            1 <= Len(S)
            => LET f == IF write_position = capacity(Buf)
                        THEN capacity(Buf) ELSE capacity(Buf) - write_position
                   n == Min(Len(S), f)
               IN  /\ write_base(Buf, S).res = Ok(n)
                   /\ RoundTrip(Buf, S).res = Ok(n)
                   /\ Prefix(RoundTrip(Buf, S).buf, n) = Prefix(S, n)
                   /\ Len(S) <= f => RoundTrip(Buf, S).buf = S

\* a buffer drained by a read that gave back written bytes, with dead capacity
\* and free space left
C2_Witness ==
    /\ last.op = "read" /\ last.res.ok /\ 1 \in {last.out[i] : i \in 1..last.res.val}
    /\ remaining_len(Buf) = 0
    /\ 0 < write_position /\ write_position < capacity(Buf)

\* C3 (as claimed): a push that returns NoCapacity has changed neither cursor nor
\* the storage.
C3_PushFailureNoMutation ==
    (last.op = "push" /\ last.res = Err("NoCapacity")) => Buf = last.pre

C5_Write ==
    last.op = "write" =>
        LET compacts == remaining_capacity(last.pre) = 0 /\ last.pre.read_position > 0
            w0 == IF compacts THEN last.pre.write_position - last.pre.read_position
                  ELSE last.pre.write_position
            r0 == IF compacts THEN 0 ELSE last.pre.read_position
            f  == PreCap - w0
            n  == Min(Len(last.buf), f)
        IN  /\ last.buf = <<>> => last.res = Err("ProvidedSliceEmpty")
            /\ (last.buf # <<>> /\ f > 0) =>
                /\ last.res = Ok(n)
                /\ write_position = w0 + n
                /\ read_position = r0
                /\ Slice(source, w0, w0 + n) = Prefix(last.buf, n)
                /\ data(Buf) = data(last.pre) \o Prefix(last.buf, n)

\* a partial write behind unread bytes
C5_Witness ==
    /\ last.op = "write" /\ last.res.ok
    /\ 1 <= last.res.val /\ last.res.val < Len(last.buf)
    /\ PreLen >= 1

\* C6: a non-empty write fails with NoCapacity exactly when remaining_len() = capacity;
\* with remaining_len() < capacity it succeeds and stores at least one byte.
C6_WriteNoCapacity ==
    (last.op = "write" /\ last.buf # <<>>) =>
        /\ last.res = Err("NoCapacity") <=> PreLen = PreCap
        /\ PreLen < PreCap => (last.res.ok /\ last.res.val >= 1)

\* a write refused by a buffer of two or more bytes that is full of unread data
C6_Witness ==
    /\ last.op = "write" /\ last.res = Err("NoCapacity")
    /\ PreCap >= 2 /\ PreLen = PreCap

\* C7: with write_position = capacity and read_position = d > 0 a non-empty write
\* stores min(len(buf), d) bytes; afterwards read_position = 0, write_position =
\* capacity - d + written, and the storage holds, from index 0, the bytes that were
\* unread followed by the written bytes.
C7_DeadCapacityReclaim ==
    (/\ last.op = "write" /\ last.buf # <<>>
     /\ last.pre.write_position = PreCap /\ last.pre.read_position > 0) =>
        LET d == last.pre.read_position
            n == Min(Len(last.buf), d)
        IN  /\ last.res = Ok(n)
            /\ read_position = 0
            /\ write_position = PreCap - d + n
            /\ Slice(source, 0, write_position) = data(last.pre) \o Prefix(last.buf, n)

\* the reclaim with unread bytes to move, both byte values among them
C7_Witness ==
    /\ last.op = "write" /\ last.res.ok
    /\ last.pre.write_position = PreCap /\ last.pre.read_position > 0
    /\ PreLen >= 2 /\ data(last.pre)[1] # data(last.pre)[2]

\* C8: read into an empty slice fails with ProvidedSliceEmpty, into a non-empty one
\* with nothing unread with NoData; otherwise it copies the first
\* min(len(buf), remaining_len()) unread bytes, returns that count, advances
\* read_position by it and leaves write_position and the storage alone.
C8_Read ==
    last.op = "read" =>
        LET k == Min(last.n, PreLen)
        IN  /\ last.n = 0 => last.res = Err("ProvidedSliceEmpty")
            /\ (last.n > 0 /\ PreLen = 0) => last.res = Err("NoData")
            /\ (last.n > 0 /\ PreLen > 0) =>
                /\ last.res = Ok(k)
                /\ Len(last.out) = last.n
                /\ Prefix(last.out, k) = Prefix(data(last.pre), k)
                /\ read_position = last.pre.read_position + k
                /\ write_position = last.pre.write_position
                /\ source = last.pre.source

\* a read of fewer bytes than are unread, and one of fewer than asked for
C8_Witness ==
    /\ last.op = "read" /\ last.res.ok
    /\ \/ last.res.val < PreLen /\ last.res.val >= 2
       \/ last.res.val < last.n /\ last.res.val >= 2

C10_Shift ==
    last.op = "shift" =>
        /\ remaining_len(Buf) = PreLen
        /\ data(Buf) = data(last.pre)
        /\ read_position = 0
        /\ write_position = last.pre.write_position - last.pre.read_position
        /\ remaining_capacity(Buf) = remaining_capacity(last.pre) + last.pre.read_position
        /\ Slice(source, 0, PreLen) = data(last.pre)

\* a shift that moves unread bytes over dead capacity
C10_Witness ==
    /\ last.op = "shift"
    /\ last.pre.read_position > 0 /\ PreLen >= 2
    /\ data(last.pre)[1] # data(last.pre)[2]

\* ---- the scoped handles --------------------------------------------------
\* the Buffer a Reader was created on
OpenedBuf == MkBuffer(opened.source, opened.write_position, opened.read_position)

\* the length of the view the spec gives a Reader: data(), cut to max_bytes
ViewLen ==
    IF opened.max_bytes = None THEN Len(opened.data)
    ELSE Min(opened.max_bytes[1], Len(opened.data))

\* C11: a Reader made by create_reader exposes exactly data(); released after
\* declarations totalling k <= remaining_len() it advances read_position by k and
\* leaves write_position and the storage; with k = 0 the Buffer is as it was before
\* the Reader was created.
C11_Reader ==
    /\ (last.op = "reader_deref" /\ opened.max_bytes = None) =>
        /\ last.res.ok
        /\ last.out = data(Buf)
        /\ last.out = opened.data
    /\ (/\ last.op = "reader_release" /\ opened.max_bytes = None
        /\ last.n <= Len(opened.data)) =>
        /\ last.res.ok /\ ~panicked
        /\ last.n = opened.sum
        /\ read_position = opened.read_position + last.n
        /\ write_position = opened.write_position
        /\ source = opened.source
        /\ last.n = 0 => Buf = OpenedBuf

\* a Reader over two or more unread bytes released after declaring some of them
C11_Witness ==
    /\ last.op = "reader_release" /\ opened.max_bytes = None /\ last.res.ok
    /\ 1 <= last.n /\ last.n < Len(opened.data)
    /\ opened.read_position > 0

\* C12 (as claimed): releasing any Reader after declaring more than the length of
\* the view it exposed panics and does not advance the read cursor.
C12_OverDeclarePanics ==
    (last.op = "reader_release" /\ last.n > ViewLen) =>
        /\ panicked
        /\ read_position = opened.read_position

\* C13 (as claimed): the view of a Reader made by create_reader_with_max(max) is the
\* first min(max, remaining_len()) unread bytes, and obtaining it never fails.
C13_ReaderWithMaxView ==
    (last.op = "reader_deref" /\ opened.max_bytes # None) =>
        /\ last.res.ok
        /\ last.out = Prefix(opened.data, Min(opened.max_bytes[1], Len(opened.data)))

\* C14: right after create_writer read_position = 0, the unread bytes are unchanged
\* in content and count, and the Writer's view and its remaining_capacity() have
\* length capacity - remaining_len().
C14_CreateWriter ==
    last.op = "create_writer" =>
        /\ read_position = 0
        /\ data(Buf) = data(last.pre)
        /\ remaining_len(Buf) = PreLen
        /\ bytes_written = 0
        /\ Len(Write_deref(Buf, bytes_written)) = PreCap - PreLen
        /\ Write_remaining_capacity(Buf, bytes_written) = PreCap - PreLen

\* a Writer created over unread bytes that lay behind dead capacity
C14_Witness ==
    /\ last.op = "create_writer"
    /\ last.pre.read_position > 0 /\ PreLen >= 1
    /\ remaining_capacity(last.pre) < PreCap - PreLen

\* C15: after a Writer is released without a commit, remaining_len(), data() and
\* what reads return are what they were before it was created, whatever was written
\* into its view, and the next write starts where this one's did.
C15_UncommittedInvisible ==
    (last.op = "writer_release" /\ last.n = 0) =>
        /\ last.res.ok
        /\ remaining_len(Buf) = Len(opened.data)
        /\ data(Buf) = opened.data
        /\ write_position = opened.write_position
        /\ read_position = opened.read_position
        /\ \A n \in 1..MaxLen :
              opened.data # <<>> =>
                  LET k == Min(n, Len(opened.data))
                      r == read_base(Buf, Zeros(n))
                  IN  r.res = Ok(k) /\ Prefix(r.buf, k) = Prefix(opened.data, k)

\* a Writer released without a commit after a 1 was written at the start of its
\* view, behind unread bytes
C15_Witness ==
    /\ last.op = "writer_release" /\ last.n = 0
    /\ opened.scribbled /\ opened.data # <<>>
    /\ write_position < Len(source) /\ source[write_position + 1] = 1

\* C16: commit(n) fails with NoCapacity, leaving the counter, exactly when n exceeds
\* the free capacity at the Writer's creation minus the bytes already committed;
\* otherwise it succeeds and adds n to the counter.
C16_Commit ==
    last.op = "commit" =>
        LET room == Len(source) - opened.write_position - last.cnt
        IN  /\ last.res = Err("NoCapacity") <=> last.n > room
            /\ last.n > room => bytes_written = last.cnt
            /\ last.n <= room => (last.res.ok /\ bytes_written = last.cnt + last.n)

\* a successful commit on top of an earlier one
C16_Witness ==
    /\ last.op = "commit" /\ last.cnt >= 1 /\ last.n >= 1
    /\ last.res.ok

\* C17: while a Writer is open the Buffer's cursors do not move (commit changes the
\* handle's counter only); the release advances write_position by the sum of the
\* successful commits, and the committed bytes follow the earlier unread bytes in
\* data().
C17_CommitOnRelease ==
    /\ handle = "writer" =>
        /\ write_position = opened.write_position
        /\ read_position = opened.read_position
        /\ data(Buf) = opened.data
        /\ bytes_written = opened.sum
    /\ last.op = "commit" => Buf = last.pre
    /\ last.op = "writer_release" =>
        /\ last.res.ok
        /\ last.n = opened.sum
        /\ write_position = opened.write_position + opened.sum
        /\ read_position = opened.read_position
        /\ data(Buf) = opened.data \o Slice(last.pre.source, opened.write_position,
                                            opened.write_position + opened.sum)

\* a release that applies two or more committed bytes behind unread bytes
C17_Witness ==
    /\ last.op = "writer_release" /\ last.res.ok
    /\ opened.sum >= 2 /\ opened.data # <<>> /\ opened.scribbled

\* C18: the Writer's release never panics and leaves write_position <= capacity,
\* whatever was written and committed (or refused) while it was open.
C18_WriterReleaseSafe ==
    /\ handle = "writer" => write_position + bytes_written <= Len(source)
    /\ last.op = "writer_release" =>
        /\ last.res.ok /\ ~panicked
        /\ write_position <= Len(source)
    /\ (last.op = "writer_store" /\ ~last.res.ok) => write_position <= Len(source)

\* a release that fills the Buffer to its end
C18_Witness ==
    /\ last.op = "writer_release" /\ last.res.ok /\ last.n >= 1
    /\ write_position = Len(source)
    /\ Len(opened.data) >= 1

\* C19: add_bytes_read(n) only adds n to the Reader's counter; while the Reader is
\* open the Buffer and the Reader's view do not change; the release applies the
\* accumulated total to read_position.
C19_DeferredConsumption ==
    /\ handle = "reader" => (Buf = OpenedBuf /\ bytes_read = opened.sum)
    /\ last.op = "add_bytes_read" =>
        /\ Buf = last.pre
        /\ bytes_read = last.cnt + last.n
    /\ (last.op = "reader_deref" /\ last.res.ok) =>
        /\ Buf = last.pre
        /\ last.out = Reader_deref(OpenedBuf, opened.max_bytes).view
    /\ (last.op = "reader_release" /\ last.res.ok) =>
        /\ read_position = opened.read_position + opened.sum
        /\ write_position = opened.write_position
        /\ source = opened.source
    /\ (last.op = "reader_release" /\ ~last.res.ok) => Buf = OpenedBuf

\* a declaration on top of an earlier one
C19_Witness ==
    /\ last.op = "add_bytes_read" /\ last.cnt >= 1 /\ last.n >= 1
    /\ Len(opened.data) >= 2

DirectOps ==
    {"write", "read", "push", "skip", "shift", "reset", "ensure_remaining_capacity"}

CreateOps == {"create_reader", "create_reader_with_max", "create_writer"}

ReaderOps == {"add_bytes_read", "reader_deref", "reader_release"}

WriterOps == {"writer_store", "commit", "writer_release"}

\* C20: at most one handle exists per Buffer; while it is open no direct Buffer
\* operation and no handle creation takes place, only after its release.
C20_HandleExclusivity ==
    /\ handle \in {"none", "reader", "writer"}
    /\ last.op \in DirectOps \cup CreateOps => last.held = "none"
    /\ last.op \in DirectOps => handle = "none"
    /\ last.op \in ReaderOps => last.held = "reader"
    /\ last.op \in WriterOps => last.held = "writer"
    /\ last.op \in {"reader_release", "writer_release"} => handle = "none"

\* a Writer has just been released: the Buffer is free again
C20_Witness ==
    /\ last.op = "writer_release" /\ last.held = "writer" /\ handle = "none"
    /\ ~panicked

\* the error kinds that tell the caller to try again later
RetryKinds == {"WouldBlock", "Interrupted"}

\* C21 (as claimed): for a write or a read through the std::io or the embedded_io
\* adapter, a core Ok(n) is returned as Ok(n); an empty slice gives Ok(0) and
\* leaves the Buffer as it was; NoCapacity / NoData on a non-empty slice gives an
\* error of a would-block / retry kind; and the panic arm is never taken.
C21_AdapterMapping ==
    last.op \in {"write", "read"} =>
        /\ last.res.ok =>
            /\ last.std_io = Ok(last.res.val)
            /\ last.embedded_io = Ok(last.res.val)
        /\ last.res = Err("ProvidedSliceEmpty") =>
            /\ last.std_io = Ok(0) /\ last.embedded_io = Ok(0)
            /\ Buf = last.pre
        /\ last.res \in {Err("NoCapacity"), Err("NoData")} =>
            /\ ~last.std_io.ok /\ last.std_io.err \in RetryKinds
            /\ ~last.embedded_io.ok /\ last.embedded_io.err \in RetryKinds
        /\ last.std_io # Err("Panic") /\ last.embedded_io # Err("Panic")
        /\ ~panicked

\* C22: reset() succeeds and sets both cursors to 0 without touching the storage;
\* after it remaining_len() = 0, remaining_capacity() = capacity(),
\* has_dead_capacity() is false, and a read into a non-empty slice fails with NoData.
C22_Reset ==
    last.op = "reset" =>
        /\ last.res.ok /\ ~panicked
        /\ read_position = 0 /\ write_position = 0
        /\ source = last.pre.source
        /\ remaining_len(Buf) = 0
        /\ remaining_capacity(Buf) = capacity(Buf)
        /\ ~has_dead_capacity(Buf)
        /\ \A n \in 1..MaxLen : read_base(Buf, Zeros(n)).res = Err("NoData")

\* a reset of a Buffer with dead capacity, unread data and a non-zero stored byte
C22_Witness ==
    /\ last.op = "reset"
    /\ last.pre.read_position >= 1 /\ PreLen >= 1
    /\ \E i \in 1..Len(source) : source[i] # 0

\* C23: in every reachable state the unread region data() is the queue of the
\* bytes accepted since the last reset (by successful write / push and by the
\* commits of a released Writer) less the bytes consumed at its front (by read,
\* skip and the release of a Reader); it never holds more than capacity() bytes.
C23_FifoRefinement ==
    /\ queue = data(Buf)
    /\ Len(queue) <= capacity(Buf)

\* a write that compacted the Buffer first, onto unread bytes that differ
C23_Witness ==
    /\ last.op = "write" /\ last.res.ok
    /\ last.pre.read_position >= 1 /\ read_position = 0
    /\ PreLen >= 2
    /\ queue[1] # queue[2]
    /\ Len(queue) = PreLen + last.res.val

\* C24: a write, read, skip or commit that returns an error (of the kinds each of
\* them has) leaves read_position, write_position and the storage as they were
\* before the call, and a failing commit leaves the Writer's counter as it was.
C24_ErrorsLeaveBuffer ==
    (last.op \in {"write", "read", "skip", "commit"} /\ ~last.res.ok) =>
        /\ Buf = last.pre
        /\ last.op = "write" => last.res.err \in {"ProvidedSliceEmpty", "NoCapacity"}
        /\ last.op = "read" => last.res.err \in {"ProvidedSliceEmpty", "NoData"}
        /\ last.op = "skip" => last.res.err = "NoData"
        /\ last.op = "commit" => (last.res.err = "NoCapacity" /\ bytes_written = last.cnt)

\* a write of an empty slice to a Buffer that is full up to its end and has dead
\* capacity, so that a compaction was possible
C24_Witness ==
    /\ last.op = "write" /\ last.res = Err("ProvidedSliceEmpty")
    /\ last.pre.write_position = PreCap
    /\ last.pre.read_position >= 1 /\ PreLen >= 1

\* C25: while a Writer is open, after successful commits totalling k its view
\* starts at storage offset (write_position at creation + k) and is
\* remaining_capacity() long; a store at index i of the view changes only the
\* storage byte at that offset + i, so it leaves the unread and the committed
\* bytes before the view as they were.
C25_WriterView ==
    /\ handle = "writer" =>
        LET start == opened.write_position + opened.sum
        IN  /\ Write_offset(Buf, bytes_written) = start
            /\ Write_deref(Buf, bytes_written) = Slice(source, start, Len(source))
            /\ Len(Write_deref(Buf, bytes_written))
                 = Write_remaining_capacity(Buf, bytes_written)
    /\ (last.op = "writer_store" /\ last.res.ok) =>
        LET start == opened.write_position + opened.sum
        IN  /\ source = copy_from_slice(last.pre.source, start + last.n, last.buf)
            /\ source[start + last.n + 1] = last.buf[1]
            /\ Slice(source, 0, start) = Slice(last.pre.source, 0, start)

\* a store at index 0 of the view after a commit, next to a committed byte of
\* the other value
C25_Witness ==
    /\ last.op = "writer_store" /\ last.res.ok /\ last.n = 0
    /\ last.cnt >= 1 /\ opened.sum = last.cnt
    /\ source[opened.write_position + opened.sum] # last.buf[1]

====
